---- MODULE Spec2Model ----
(***************************************************************************)
(* Model of the AnsibleTest reconciler of test-operator                    *)
(* (controllers/ansibletest_controller.go).                                *)
(*                                                                         *)
(* Every workflow instance is reconciled by AnsibleTestReconciler.Reconcile.*)
(* One invocation is a sequence of blocking requests to the platform, and  *)
(* every request is one step of the model: Fetch (the Get of the instance, *)
(* NewHelper and the first-seen initialisation), Decide (the listing of    *)
(* NextAction and the switch on its result), Release (ReleaseLock of the   *)
(* EndTesting case), Acquire (the read of the lock record by AcquireLock), *)
(* Claim (the conditional create of the lock record), EnsurePVC            *)
(* (EnsureLogsPVCExists), CheckSecretExists, GetContainerImage, Submit     *)
(* (CreatePod), Unlock (ReleaseLock after a failed CreatePod) and Patch    *)
(* (the deferred status patch and the return).  frame[i] holds the locals  *)
(* of the running invocation: the instance as fetched and as changed in    *)
(* memory, and the result the deferred function will return.  An           *)
(* invocation whose fetch of the instance or whose NewHelper fails, or     *)
(* whose instance is not found, returns before the deferred function is    *)
(* registered; every other exit runs the deferred status patch.            *)
(* Reconciles of different instances, the workers and the platform run     *)
(* between any two requests.                                               *)
(*                                                                         *)
(* The helpers of the embedded Reconciler (NextAction, AcquireLock,        *)
(* ReleaseLock, CreatePod, EnsureLogsPVCExists, GetPodName,                *)
(* GetContainerImage) are not part of the controller file; they are        *)
(* modelled after the specification.  The workflow definition is not       *)
(* mutated during a run.  An instance can be deleted at any time, also     *)
(* between two requests of its running Reconcile, which fetched it once    *)
(* and goes on with its copy: the workers the instance owns are deleted    *)
(* with it (and the ones created for it afterwards are collected), the     *)
(* lock record is not, and the patch of the status meets a missing object. *)
(* Timestamps and messages of conditions are abstracted away.              *)
(***************************************************************************)
EXTENDS Naturals, Integers, Sequences, FiniteSets, TLC

\* Largest workflow length (number of step overrides) of an instance.
MaxSteps == 2
\* Longest override list the resolver is applied to on its own.
MaxOverrides == 2
\* Number of Reconcile invocations of a behaviour in which platform calls fail.
MaxFaults == 1
\* Largest workflow length of the second instance, the competitor of the first.
MaxCompetitorSteps == 0

\* The workflow instances competing for the lock.
Instances == {1, 2}
\* Owner value of an absent lock record.
NoOwner == 0

VARIABLES
    wfLen,      \* wfLen[i]: len(instance.Spec.Workflow)
    deleted,    \* the instances that were deleted from the cluster
    nodeSel,    \* nodeSel[i]: instance.Spec.NodeSelector as stored in the cluster
    conds,      \* conds[i]: instance.Status.Conditions as stored in the cluster
    pods,       \* the step workers stored in the cluster
    podCache,   \* podCache[i]: the workers of i as the reconciler observes them
    pvc,        \* pvc[i]: the logs volume claim of i exists
    lock,       \* the lock record: its owner, NoOwner when absent
    pc,         \* pc[i]: position of the running Reconcile of i, "idle" if none
    act,        \* act[i]: nextAction of the running Reconcile
    step,       \* step[i]: nextWorkflowStep of the running Reconcile
    holders,    \* the instances that were granted the lock and did not release it
    frame,      \* frame[i]: the locals of the running Reconcile of i
    faults,     \* number of Reconcile invocations in which a platform call failed
    ret,        \* what a Reconcile returned in the last step, NoResult if none did
    resolve,    \* a call of OverwriteAnsibleWithWorkflow: its arguments and result
    last        \* last[i]: what NextAction last decided for i, whether the
                \* view is the same since, and whether the invocation before
                \* decided on that view too; NoDecision when an invocation
                \* since decided nothing or the cluster changed

vars == <<wfLen, deleted, nodeSel, conds, pods, podCache, pvc, lock, holders,
          pc, act, step, frame, faults, ret, resolve, last>>

-----------------------------------------------------------------------------
(* Conditions *)

Cond(s, r) == [status |-> s, reason |-> r]

\* instance.Status.Conditions == nil
NilConditions ==
    [Ready |-> Cond("Absent", "Absent"),
     ServiceConfigReady |-> Cond("Absent", "Absent"),
     DeploymentReady |-> Cond("Absent", "Absent")]

\* The list built for a first-seen instance.
InitConditions ==
    [Ready |-> Cond("Unknown", "Init"),
     ServiceConfigReady |-> Cond("Unknown", "Init"),
     DeploymentReady |-> Cond("Unknown", "Init")]

SubConditions == {"ServiceConfigReady", "DeploymentReady"}

\* Conditions.MarkTrue(t, msg)
MarkTrue(c, t) == [c EXCEPT ![t] = Cond("True", "Ready")]

\* Conditions.Set(condition.FalseCondition(t, reason, ...))
SetFalse(c, t, reason) == [c EXCEPT ![t] = Cond("False", reason)]

\* Conditions.AllSubConditionIsTrue(): every condition but Ready is True.
AllSubConditionIsTrue(c) == \A t \in SubConditions : c[t].status = "True"

\* Priority of a condition for Mirror: False before Unknown before True.
MirrorPriority(cnd) ==
    IF cnd.status = "False" THEN 0
    ELSE IF cnd.status = "Unknown" THEN 1 ELSE 2

\* Conditions.Mirror(Ready): the first non-ready sub-condition, Ready/True
\* when every sub-condition is True.
Mirror(c) ==
    LET top == CHOOSE t \in SubConditions :
                 \A u \in SubConditions :
                    \/ MirrorPriority(c[t]) < MirrorPriority(c[u])
                    \/ /\ MirrorPriority(c[t]) = MirrorPriority(c[u])
                       /\ (t = "ServiceConfigReady" \/ u = "DeploymentReady")
    IN IF c[top].status = "True" THEN Cond("True", "Ready") ELSE c[top]

\* The deferred function marking Ready without testing the sub-conditions.
DeferredStatusUnguarded(c) ==
    LET c1 == MarkTrue(c, "Ready")
    IN IF c1.Ready.status = "Unknown"
       THEN [c1 EXCEPT !.Ready = Mirror(c1)]
       ELSE c1

\* The deferred function of Reconcile, up to the patch.
DeferredStatus(c) ==
    LET c1 == IF AllSubConditionIsTrue(c) THEN MarkTrue(c, "Ready") ELSE c
    IN IF c1.Ready.status = "Unknown"
       THEN [c1 EXCEPT !.Ready = Mirror(c1)]
       ELSE c1

-----------------------------------------------------------------------------
(* Workflow definition and the parameter override resolver *)

\* A nil pointer / a pointer to v.
NilPtr == <<>>
Ptr(v) == <<v>>

\* A Go value with its dynamic type, as reflect's Interface() hands it to
\* the resolver: bool, uint8 and string values, and *bool and *uint8
\* pointers (nil or not), which keep their pointee type.
Bool(b) == [type |-> "bool", val |-> b]
Uint8(n) == [type |-> "uint8", val |-> n]
String(str) == [type |-> "string", val |-> str]
PBool(ptr) == [type |-> "*bool", val |-> ptr]
PUint8(ptr) == [type |-> "*uint8", val |-> ptr]
\* The untyped nil, and the outcome of a failed single-value type assertion.
Nil == [type |-> "nil", val |-> "nil"]
Panic == [type |-> "panic", val |-> "panic"]

\* x.(T) in its single-value form: the value when x has the dynamic type T,
\* a panic otherwise.
TypeAssert(x, T) == IF x.type = T THEN x.val ELSE "panic"

\* The override record of step k (0-based): even steps override the image,
\* the debug and privileged flags and the node selector, odd steps override
\* nothing.
StepOverride(k) ==
    IF k % 2 = 0
    THEN [ContainerImage |-> String("custom:v2"),
          AnsibleExtraVars |-> String(""),
          Debug |-> PBool(Ptr(TRUE)), Privileged |-> PBool(Ptr(FALSE)),
          NodeSelector |-> Ptr("step")]
    ELSE [ContainerImage |-> String(""), AnsibleExtraVars |-> String(""),
          Debug |-> PBool(NilPtr), Privileged |-> PBool(NilPtr),
          NodeSelector |-> NilPtr]

\* instance.Spec of an instance whose workflow has n steps.
InstanceSpec(n) ==
    [ContainerImage |-> String("default:v1"),
     AnsibleExtraVars |-> String("base"),
     Debug |-> Bool(FALSE), Privileged |-> Bool(TRUE), NodeSelector |-> "base",
     Workflow |-> [k \in 1..n |-> StepOverride(k - 1)]]

\* The resolver taking a boolean override of false for an unset one.
OverwriteTruthyOverride(instance, sectionName, workflowValueType, workflowStepNum) ==
    IF Len(instance.Workflow) - 1 < workflowStepNum
    THEN instance[sectionName]
    ELSE LET SpecValue == instance[sectionName]
             WorkflowValue == instance.Workflow[workflowStepNum + 1][sectionName]
         IN IF workflowValueType = "pbool"
            THEN IF /\ WorkflowValue.type = "*bool"
                    /\ WorkflowValue.val # NilPtr
                    /\ WorkflowValue.val[1]
                 THEN Bool(WorkflowValue.val[1])
                 ELSE IF SpecValue.type = "bool" THEN SpecValue ELSE Panic
            ELSE IF workflowValueType = "puint8"
            THEN IF WorkflowValue.type = "*uint8" /\ WorkflowValue.val # NilPtr
                 THEN Uint8(WorkflowValue.val[1])
                 ELSE SpecValue
            ELSE IF workflowValueType = "string"
            THEN IF WorkflowValue.type = "string" /\ WorkflowValue.val # ""
                 THEN WorkflowValue
                 ELSE SpecValue
            ELSE Nil

\* The resolver answering the zero value, not the base value, for a step the
\* workflow does not have.
OverwriteZeroOutOfRange(instance, sectionName, workflowValueType, workflowStepNum) ==
    IF Len(instance.Workflow) - 1 < workflowStepNum
    THEN IF workflowValueType = "pbool" THEN Bool(FALSE) ELSE String("")
    ELSE LET SpecValue == instance[sectionName]
             WorkflowValue == instance.Workflow[workflowStepNum + 1][sectionName]
         IN IF workflowValueType = "pbool"
            THEN IF WorkflowValue.type = "*bool" /\ WorkflowValue.val # NilPtr
                 THEN Bool(WorkflowValue.val[1])
                 ELSE IF SpecValue.type = "bool" THEN SpecValue ELSE Panic
            ELSE IF workflowValueType = "puint8"
            THEN IF WorkflowValue.type = "*uint8" /\ WorkflowValue.val # NilPtr
                 THEN Uint8(WorkflowValue.val[1])
                 ELSE SpecValue
            ELSE IF workflowValueType = "string"
            THEN IF WorkflowValue.type = "string" /\ WorkflowValue.val # ""
                 THEN WorkflowValue
                 ELSE SpecValue
            ELSE Nil

\* The resolver without the length check: a step the workflow does not have
\* indexes past the end of the list.
OverwriteUnguardedIndex(instance, sectionName, workflowValueType, workflowStepNum) ==
    IF Len(instance.Workflow) - 1 < workflowStepNum
    THEN Panic
    ELSE LET SpecValue == instance[sectionName]
             WorkflowValue == instance.Workflow[workflowStepNum + 1][sectionName]
         IN IF workflowValueType = "pbool"
            THEN IF WorkflowValue.type = "*bool" /\ WorkflowValue.val # NilPtr
                 THEN Bool(WorkflowValue.val[1])
                 ELSE IF SpecValue.type = "bool" THEN SpecValue ELSE Panic
            ELSE IF workflowValueType = "puint8"
            THEN IF WorkflowValue.type = "*uint8" /\ WorkflowValue.val # NilPtr
                 THEN Uint8(WorkflowValue.val[1])
                 ELSE SpecValue
            ELSE IF workflowValueType = "string"
            THEN IF WorkflowValue.type = "string" /\ WorkflowValue.val # ""
                 THEN WorkflowValue
                 ELSE SpecValue
            ELSE Nil

\* Reconciler.OverwriteAnsibleWithWorkflow(instance, sectionName,
\* workflowValueType, workflowStepNum); Workflow is 1-based here.  A step
\* the workflow does not have gives the field of the Spec.  Else each declared
\* type asserts the type of the workflow value ("val, ok :=") and takes it
\* when the assertion holds and the value is set; "pbool" otherwise asserts
\* SpecValue.(bool), which panics for a field that is no bool; the other two
\* return SpecValue; an undeclared type gives nil.
OverwriteAnsibleWithWorkflow(instance, sectionName, workflowValueType, workflowStepNum) ==
    IF Len(instance.Workflow) - 1 < workflowStepNum
    THEN instance[sectionName]
    ELSE LET SpecValue == instance[sectionName]
             WorkflowValue == instance.Workflow[workflowStepNum + 1][sectionName]
         IN IF workflowValueType = "pbool"
            THEN IF WorkflowValue.type = "*bool" /\ WorkflowValue.val # NilPtr
                 THEN Bool(WorkflowValue.val[1])
                 ELSE IF SpecValue.type = "bool" THEN SpecValue ELSE Panic
            ELSE IF workflowValueType = "puint8"
            THEN IF WorkflowValue.type = "*uint8" /\ WorkflowValue.val # NilPtr
                 THEN Uint8(WorkflowValue.val[1])
                 ELSE SpecValue
            ELSE IF workflowValueType = "string"
            THEN IF WorkflowValue.type = "string" /\ WorkflowValue.val # ""
                 THEN WorkflowValue
                 ELSE SpecValue
            ELSE Nil

\* AnsibleTestReconciler.PrepareAnsibleEnv: the environment and the override
\* parameters of one step (the fields of the model), each resolved value
\* asserted to its type.  POD_DEBUG is set to "true" when the debug flag is
\* set and is left unset otherwise.
PrepareAnsibleEnv(instance, s) ==
    [ContainerImage |->
        TypeAssert(OverwriteAnsibleWithWorkflow(instance, "ContainerImage",
                                                "string", s), "string"),
     POD_DEBUG |->
        IF TypeAssert(OverwriteAnsibleWithWorkflow(instance, "Debug", "pbool",
                                                   s), "bool")
        THEN "true" ELSE "unset",
     POD_ANSIBLE_EXTRA_VARS |->
        TypeAssert(OverwriteAnsibleWithWorkflow(instance, "AnsibleExtraVars",
                                                "string", s), "string")]

\* The placement override applied to the in-memory instance before the pod
\* is built.
EffectiveNodeSelector(instance, nextWorkflowStep) ==
    IF /\ nextWorkflowStep < Len(instance.Workflow)
       /\ instance.Workflow[nextWorkflowStep + 1].NodeSelector # NilPtr
    THEN instance.Workflow[nextWorkflowStep + 1].NodeSelector[1]
    ELSE instance.NodeSelector

\* The Spec of instance i as Reconcile fetches it from the cluster.
Instance(i) == [InstanceSpec(wfLen[i]) EXCEPT !.NodeSelector = nodeSel[i]]

-----------------------------------------------------------------------------
(* Step workers *)

\* GetPodName(instance, step): the deterministic name of a worker.
GetPodName(i, nextWorkflowStep) == <<i, nextWorkflowStep>>

\* The step label counting from 1.
StepLabelFromOne(nextWorkflowStep) == nextWorkflowStep + 1

\* The workflowStep label of the worker of a step.
StepLabel(nextWorkflowStep) == nextWorkflowStep

\* The worker named after the number of workers in the cluster, not after
\* its step.
PodDefCountedName(i, nextWorkflowStep) ==
    LET instance == Instance(i)
        env == PrepareAnsibleEnv(instance, nextWorkflowStep)
    IN [name |-> <<i, Cardinality(pods)>>,
        owner |-> i,
        step |-> StepLabel(nextWorkflowStep),
        phase |-> "Running",
        image |-> env.ContainerImage,
        privileged |->
            TypeAssert(OverwriteAnsibleWithWorkflow(instance, "Privileged",
                                                    "pbool", nextWorkflowStep),
                       "bool"),
        debug |-> env.POD_DEBUG,
        extraVars |-> env.POD_ANSIBLE_EXTRA_VARS,
        nodeSelector |-> EffectiveNodeSelector(instance, nextWorkflowStep)]

\* ansibletest.Pod(...): the worker of step nextWorkflowStep of instance i.
PodDef(i, nextWorkflowStep) ==
    LET instance == Instance(i)
        env == PrepareAnsibleEnv(instance, nextWorkflowStep)
    IN [name |-> GetPodName(i, nextWorkflowStep),
        owner |-> i,
        step |-> StepLabel(nextWorkflowStep),
        phase |-> "Running",
        image |-> env.ContainerImage,
        privileged |->
            TypeAssert(OverwriteAnsibleWithWorkflow(instance, "Privileged",
                                                    "pbool", nextWorkflowStep),
                       "bool"),
        debug |-> env.POD_DEBUG,
        extraVars |-> env.POD_ANSIBLE_EXTRA_VARS,
        nodeSelector |-> EffectiveNodeSelector(instance, nextWorkflowStep)]

\* The workers of instance i among a set of workers.
PodsOf(ps, i) == {p \in ps : p.owner = i}

\* Reconciler.CreatePod: an existing worker of that name is success, else
\* the worker is created.
CreatePod(ps, podDef) ==
    IF \E p \in ps : p.name = podDef.name THEN ps ELSE ps \cup {podDef}

-----------------------------------------------------------------------------
(* Workflow state evaluator *)

\* Reconciler.NextAction over the observed workers of one instance:
\* <<action, step index>>.
NextAction(observed, workflowLength) ==
    IF observed = {} THEN <<"CreateFirstPod", 0>>
    ELSE LET lastPod == CHOOSE p \in observed :
                            \A q \in observed : q.step <= p.step
             idx == lastPod.step
         IN IF {p.step : p \in observed} # 0..idx THEN <<"Failure", idx>>
            ELSE IF lastPod.phase = "Running" THEN <<"Wait", idx>>
            ELSE IF lastPod.phase = "Failed" THEN <<"Failure", idx>>
            ELSE IF idx + 1 < workflowLength THEN <<"CreateNextPod", idx + 1>>
            ELSE <<"EndTesting", idx>>

-----------------------------------------------------------------------------
(* Exclusive execution lock.  The lock record is absent (NoOwner) or names *)
(* its owner; every mutation is one atomic conditional update.             *)

\* A claim that writes the record without the condition on its absence.
LockClaimUnconditional(l, i) == [acquired |-> TRUE, lock |-> i]

\* AcquireLock, the conditional create after the record was read as absent:
\* create-if-absent.
LockClaim(l, i) ==
    IF l = NoOwner THEN [acquired |-> TRUE, lock |-> i]
    ELSE [acquired |-> FALSE, lock |-> l]

\* ReleaseLock(instance): Released when the caller owns the record,
\* NotHeldBySelf is reported as released too (non-fatal); a failing platform
\* call releases nothing and returns an error.
ReleaseLock(l, i, apiOk) ==
    IF ~apiOk THEN [released |-> FALSE, lock |-> l, err |-> TRUE]
    ELSE IF l = i THEN [released |-> TRUE, lock |-> NoOwner, err |-> FALSE]
    ELSE [released |-> TRUE, lock |-> l, err |-> FALSE]

-----------------------------------------------------------------------------
(* Reconcile *)

\* Reconcile going on whatever AcquireLock answered.
LockDeniedIgnored(lockAcquired) == FALSE

\* Reconcile's test of AcquireLock's answer in the CreateFirstPod and
\* CreateNextPod cases: return and requeue when the lock was not acquired.
LockDenied(lockAcquired) == ~lockAcquired

\* What a Reconcile of instance i returned: the Evaluator's decision and the
\* step index it named, the exit taken, whether the result asks for a requeue
\* after RequeueAfterValue, whether the returned error is non-nil, and whether
\* the deferred function left the status stored as it computed it.
Result(i, action, nextWorkflowStep, outcome, requeue, err) ==
    [inst |-> i, action |-> action, step |-> nextWorkflowStep,
     outcome |-> outcome, requeue |-> requeue, err |-> err, patched |-> TRUE]

NoResult == Result(NoOwner, "None", 0, "None", FALSE, FALSE)

\* The locals of no invocation.
NoFrame ==
    [before |-> NilConditions, mem |-> NilConditions, sel |-> "base",
     outcome |-> "None",
     requeue |-> FALSE, err |-> FALSE, faulty |-> FALSE, acquired |-> FALSE]

\* No decision of NextAction is remembered.
NoDecision == [action |-> "None", step |-> 0, same |-> TRUE, again |-> FALSE]

\* The remembered decision of i is forgotten.
Forget(i) == last' = [last EXCEPT ![i] = NoDecision]

\* The answers of the platform to a request.
Answers == {"ok", "error"}
SubmitAnswers == {"ok", "requeue", "error"}

\* A request of the invocation of i is answered, failed telling whether it
\* is not the plain success: the first such answer of an invocation counts
\* as a fault of the behaviour.
Charge(i, failed) ==
    /\ (failed /\ ~frame[i].faulty) => faults < MaxFaults
    /\ faults' = IF failed /\ ~frame[i].faulty THEN faults + 1 ELSE faults

\* The invocation of i goes on at position p with the locals f.
Goto(i, p, f) ==
    /\ pc' = [pc EXCEPT ![i] = p]
    /\ frame' = [frame EXCEPT ![i] = f]
    /\ ret' = NoResult

\* The invocation of i leaves the body of Reconcile with a result; the
\* deferred function is still to run.
Leave(i, f, outcome, requeue, err) ==
    Goto(i, "patch",
         [f EXCEPT !.outcome = outcome, !.requeue = requeue, !.err = err])

\* A return of Reconcile of i before the deferred function is registered:
\* nothing is decided and nothing is written.
EarlyReturn(i, outcome, err) ==
    /\ ret' = [Result(i, "None", 0, outcome, FALSE, err)
                  EXCEPT !.patched = FALSE]
    /\ UNCHANGED <<pc, act, step, frame>>

\* No instance taken for a first-seen one.
IsNewInstanceNever(c) == FALSE

\* isNewInstance: the fetched status has no Conditions.
IsNewInstance(c) == c = NilConditions

\* Reconcile of i from its start to the answer of Get, and up to the next
\* request.  A deleted instance is not found and Reconcile returns nil; a
\* failing Get or NewHelper returns its error; these returns come before the
\* deferred function is registered.  A first-seen instance gets its
\* conditions and Reconcile returns; else NextAction is called.
Fetch(i) ==
    /\ pc[i] = "idle"
    /\ UNCHANGED <<wfLen, deleted, nodeSel, conds, pods, podCache, pvc, lock,
                   holders, resolve>>
    /\ \/ /\ i \in deleted
          /\ EarlyReturn(i, "NotFound", FALSE)
          /\ Forget(i)
          /\ UNCHANGED faults
       \/ /\ \E outcome \in {"GetError"} \cup
                            (IF i \in deleted THEN {} ELSE {"HelperError"}) :
                EarlyReturn(i, outcome, TRUE)
          /\ Forget(i)
          /\ faults < MaxFaults
          /\ faults' = faults + 1
       \/ /\ i \notin deleted
          /\ UNCHANGED <<faults, step, last>>
          /\ \E f \in {[NoFrame EXCEPT !.before = conds[i], !.mem = conds[i],
                                      !.sel = nodeSel[i]]} :
                IF IsNewInstance(conds[i])
                THEN /\ Leave(i, [f EXCEPT !.mem = InitConditions],
                              "Init", FALSE, FALSE)
                     /\ act' = [act EXCEPT ![i] = "Init"]
                ELSE /\ Goto(i, "list", f)
                     /\ UNCHANGED act

\* The switch with Failure treated as the end of the run.
DispatchFailureReleases(nextAction) ==
    CASE nextAction = "Wait" -> "requeue"
      [] nextAction \in {"Failure", "EndTesting"} -> "release"
      [] nextAction \in {"CreateFirstPod", "CreateNextPod"} -> "acquire"
      [] OTHER -> "unexpected"

\* The switch with Failure falling into the worker-creating cases.
DispatchFailureCreates(nextAction) ==
    CASE nextAction = "Wait" -> "requeue"
      [] nextAction = "EndTesting" -> "release"
      [] nextAction \in {"Failure", "CreateFirstPod", "CreateNextPod"} ->
            "acquire"
      [] OTHER -> "unexpected"

\* The switch of Reconcile on nextAction: what the invocation does next.
Dispatch(nextAction) ==
    CASE nextAction = "Failure" -> "returnError"
      [] nextAction = "Wait" -> "requeue"
      [] nextAction = "EndTesting" -> "release"
      [] nextAction \in {"CreateFirstPod", "CreateNextPod"} -> "acquire"
      [] OTHER -> "unexpected"

\* NextAction lists the workers of i, as the reconciler observes them, and
\* Reconcile switches on its answer: Failure and Wait return, EndTesting
\* goes on to ReleaseLock, CreateFirstPod and CreateNextPod to AcquireLock.
Decide(i) ==
    /\ pc[i] = "list"
    /\ UNCHANGED <<wfLen, deleted, nodeSel, conds, pods, podCache, pvc, lock,
                   holders, faults, resolve>>
    /\ \E na \in {NextAction(podCache[i], wfLen[i])} :
       \E do \in {Dispatch(na[1])} :
          /\ act' = [act EXCEPT ![i] = na[1]]
          /\ step' = [step EXCEPT ![i] = na[2]]
          /\ last' = [last EXCEPT ![i] =
                         [action |-> na[1], step |-> na[2], same |-> TRUE,
                          again |-> last[i] # NoDecision /\ last[i].same]]
          /\ IF do \in {"returnError", "unexpected"}
             THEN Leave(i, frame[i], "Failure", FALSE, TRUE)
             ELSE IF do = "requeue"
             THEN Leave(i, frame[i], "Wait", TRUE, FALSE)
             ELSE Goto(i, do, frame[i])

\* The lock record changes from lock to l2 in a step of instance i, which
\* was granted the lock in this step or not.
LockUpdate(i, granted, l2) ==
    /\ lock' = l2
    /\ holders' = (IF granted THEN holders \cup {i} ELSE holders)
                  \ (IF lock = i /\ l2 # i /\ ~granted THEN {i} ELSE {})

\* The EndTesting case marking DeploymentReady before it looks at the
\* answer of ReleaseLock.
EndTestingStepMarkFirst(i, c, l, answer) ==
    LET rel == ReleaseLock(l, i, answer = "ok")
    IN [mem |-> MarkTrue(c, "DeploymentReady"), lock |-> rel.lock,
        outcome |-> IF rel.released THEN "Completed" ELSE "ReleaseFailed",
        requeue |-> ~rel.released, err |-> rel.err]

\* The EndTesting case: release the lock; when it was not released return
\* and requeue, else mark DeploymentReady True.
EndTestingStep(i, c, l, answer) ==
    LET rel == ReleaseLock(l, i, answer = "ok")
    IN IF ~rel.released
       THEN [mem |-> c, lock |-> rel.lock, outcome |-> "ReleaseFailed",
             requeue |-> TRUE, err |-> rel.err]
       ELSE [mem |-> MarkTrue(c, "DeploymentReady"), lock |-> rel.lock,
             outcome |-> "Completed", requeue |-> FALSE, err |-> FALSE]

\* The EndTesting case of Reconcile: ReleaseLock is answered.
Release(i) ==
    /\ pc[i] = "release"
    /\ UNCHANGED <<wfLen, deleted, nodeSel, conds, pods, podCache, pvc, act,
                   step, resolve, last>>
    /\ \E answer \in Answers :
       \E out \in {EndTestingStep(i, frame[i].mem, lock, answer)} :
          /\ Charge(i, answer # "ok")
          /\ LockUpdate(i, FALSE, out.lock)
          /\ Leave(i, [frame[i] EXCEPT !.mem = out.mem,
                                       !.faulty = @ \/ answer # "ok"],
                   out.outcome, out.requeue, out.err)

\* AcquireLock reads the lock record.  When the record is absent the
\* invocation goes on to create it (Claim); when the lock is not acquired
\* Reconcile returns with a requeue; when the caller owns the lock it goes
\* on to the volume claim.
Acquire(i) ==
    /\ pc[i] = "acquire"
    /\ UNCHANGED <<wfLen, deleted, nodeSel, conds, pods, podCache, pvc, lock,
                   holders, act, step, resolve, last>>
    /\ \E answer \in Answers :
          /\ Charge(i, answer # "ok")
          /\ IF answer # "ok"
             THEN Leave(i, [frame[i] EXCEPT !.faulty = TRUE],
                        "LockError", TRUE, TRUE)
             ELSE IF lock = NoOwner
             THEN Goto(i, "claim", frame[i])
             ELSE IF LockDenied(lock = i)
             THEN Leave(i, frame[i], "HeldByOther", TRUE, FALSE)
             ELSE Goto(i, "pvc", frame[i])

\* AcquireLock creating the lock record it read as absent: when another
\* instance created it first the lock is not acquired and Reconcile returns,
\* else the instance owns the lock and the invocation goes on to the volume
\* claim.
Claim(i) ==
    /\ pc[i] = "claim"
    /\ UNCHANGED <<wfLen, deleted, nodeSel, conds, pods, podCache, pvc, act,
                   step, faults, resolve, last>>
    /\ \E c \in {LockClaim(lock, i)} :
          /\ LockUpdate(i, c.acquired, c.lock)
          /\ IF LockDenied(c.acquired)
             THEN Leave(i, frame[i], "HeldByOther", TRUE, FALSE)
             ELSE Goto(i, "pvc", [frame[i] EXCEPT !.acquired = c.acquired])

\* EnsureLogsPVCExists is answered: an error returns it, a claim that is
\* not ready yet returns with a requeue, else ServiceConfigReady is marked
\* True in memory and the invocation goes on.
EnsurePVC(i) ==
    /\ pc[i] = "pvc"
    /\ UNCHANGED <<wfLen, deleted, nodeSel, conds, pods, podCache, lock,
                   holders, act, step, resolve, last>>
    /\ \E answer \in SubmitAnswers :
       \E f \in {[frame[i] EXCEPT !.faulty = @ \/ answer # "ok"]} :
          /\ Charge(i, answer # "ok")
          /\ pvc' = [pvc EXCEPT ![i] = @ \/ answer # "error"]
          /\ IF answer = "error"
             THEN Leave(i, f, "PVCError", FALSE, TRUE)
             ELSE IF answer = "requeue"
             THEN Leave(i, f, "PVCRequeue", TRUE, FALSE)
             ELSE Goto(i, "secret",
                       [f EXCEPT !.mem = MarkTrue(@, "ServiceConfigReady")])

\* CheckSecretExists is answered: whether the worker mounts the
\* certificates, which is no part of the worker of the model.
CheckSecretExists(i) ==
    /\ pc[i] = "secret"
    /\ UNCHANGED <<wfLen, deleted, nodeSel, conds, pods, podCache, pvc, lock,
                   holders, act, step, faults, resolve, last>>
    /\ Goto(i, "image", frame[i])

\* PrepareAnsibleEnv and GetContainerImage are answered: an error returns
\* it, else the overrides of the step are applied to the in-memory Spec.
GetContainerImage(i) ==
    /\ pc[i] = "image"
    /\ UNCHANGED <<wfLen, deleted, nodeSel, conds, pods, podCache, pvc, lock,
                   holders, act, step, resolve, last>>
    /\ \E answer \in Answers :
          /\ Charge(i, answer # "ok")
          /\ IF answer # "ok"
             THEN Leave(i, [frame[i] EXCEPT !.faulty = TRUE],
                        "ImageError", FALSE, TRUE)
             ELSE Goto(i, "pod",
                       [frame[i] EXCEPT
                          !.sel = PodDef(i, step[i]).nodeSelector])

\* CreatePod is answered: the worker exists and Reconcile returns (with
\* DeploymentReady False/Requested and a requeue when the creation is still
\* in progress), or CreatePod failed and the invocation goes on to release
\* the lock.
Submit(i) ==
    /\ pc[i] = "pod"
    /\ UNCHANGED <<wfLen, deleted, nodeSel, conds, podCache, pvc, lock,
                   holders, act, step, resolve, last>>
    /\ \E answer \in SubmitAnswers :
       \E f \in {[frame[i] EXCEPT !.faulty = @ \/ answer # "ok"]} :
          /\ Charge(i, answer # "ok")
          /\ pods' = IF answer = "error" THEN pods
                     ELSE CreatePod(pods, PodDef(i, step[i]))
          /\ IF answer = "error"
             THEN Goto(i, "unlock", f)
             ELSE IF answer = "requeue"
             THEN Leave(i, [f EXCEPT !.mem = SetFalse(@, "DeploymentReady",
                                                      "Requested")],
                        "PodRequested", TRUE, FALSE)
             ELSE Leave(i, f, "Submitted", FALSE, FALSE)

\* ReleaseLock after a failed CreatePod is answered: when the lock was not
\* released Reconcile returns at once, else DeploymentReady is set False
\* with the reason Error and the error of CreatePod is returned.
Unlock(i) ==
    /\ pc[i] = "unlock"
    /\ UNCHANGED <<wfLen, deleted, nodeSel, conds, pods, podCache, pvc, act,
                   step, faults, resolve, last>>
    /\ \E answer \in Answers :
       \E rel \in {ReleaseLock(lock, i, answer = "ok")} :
          /\ LockUpdate(i, FALSE, rel.lock)
          /\ IF ~rel.released
             THEN Leave(i, frame[i], "PodErrorLockKept", FALSE, rel.err)
             ELSE Leave(i, [frame[i] EXCEPT
                              !.mem = SetFalse(@, "DeploymentReady", "Error")],
                        "PodError", FALSE, TRUE)

\* The deferred function writing the whole in-memory instance, Spec
\* included, back to the cluster.
PatchedSpecInMemory(i, written) ==
    IF written THEN [nodeSel EXCEPT ![i] = frame[i].sel] ELSE nodeSel

\* What PatchInstance writes of the Spec: nothing, it sends the status (and
\* the metadata, which Reconcile never changes).
PatchedSpec(i, written) == nodeSel

\* The deferred function of Reconcile of i and the return: the status is
\* computed from the in-memory conditions and patched when it differs from
\* the one NewHelper saved.  A failing patch leaves the stored status and
\* makes Reconcile return the patch's error.  The patch of a deleted
\* instance writes nothing: PatchInstance returns the answer "not found" as
\* its error or takes it for done.
Patch(i) ==
    /\ pc[i] = "patch"
    /\ UNCHANGED <<wfLen, deleted, pods, podCache, pvc, lock, holders,
                   resolve, last>>
    /\ \E status \in {DeferredStatus(frame[i].mem)}, answer \in Answers :
       \E changed \in {status # frame[i].before} :
       \E written \in {answer = "ok" /\ i \notin deleted} :
          /\ answer # "ok" => changed
          /\ Charge(i, answer # "ok" /\ i \notin deleted)
          /\ ret' = [Result(i, act[i], step[i], frame[i].outcome,
                            frame[i].requeue, frame[i].err)
                       EXCEPT !.err = @ \/ answer # "ok",
                              !.patched = written \/ ~changed]
          /\ conds' = IF written THEN [conds EXCEPT ![i] = status] ELSE conds
          /\ nodeSel' = PatchedSpec(i, written)
          /\ pc' = [pc EXCEPT ![i] = "idle"]
          /\ act' = [act EXCEPT ![i] = "None"]
          /\ step' = [step EXCEPT ![i] = 0]
          /\ frame' = [frame EXCEPT ![i] = NoFrame]

\* A request of the Reconcile of i is answered.
Reconcile(i) ==
    \/ Fetch(i)
    \/ Decide(i)
    \/ Release(i)
    \/ Acquire(i)
    \/ Claim(i)
    \/ EnsurePVC(i)
    \/ CheckSecretExists(i)
    \/ GetContainerImage(i)
    \/ Submit(i)
    \/ Unlock(i)
    \/ Patch(i)

-----------------------------------------------------------------------------
(* Environment: workers finish, the reconciler's view of them catches up, *)
(* instances are deleted.  The view may lag behind the cluster by any     *)
(* number of changes.                                                     *)

\* A running worker of i ends in the phase "Succeeded" or "Failed".
PodEnds(i, phase) ==
    /\ \E p \in PodsOf(pods, i) :
         /\ p.phase = "Running"
         /\ pods' = (pods \ {p}) \cup {[p EXCEPT !.phase = phase]}
    /\ ret' = NoResult
    /\ Forget(i)
    /\ UNCHANGED <<wfLen, deleted, nodeSel, conds, podCache, pvc, lock,
                   holders, pc, act, step, frame, faults, resolve>>

PodSucceed(i) == PodEnds(i, "Succeeded")

PodFail(i) == PodEnds(i, "Failed")

\* Instance i is deleted from the cluster, at any point of a Reconcile of
\* it: its status goes and the workers it owns are deleted with it; the
\* lock record is left as it is.
Delete(i) ==
    /\ i \notin deleted
    /\ deleted' = deleted \cup {i}
    /\ conds' = [conds EXCEPT ![i] = NilConditions]
    /\ pods' = pods \ PodsOf(pods, i)
    /\ ret' = NoResult
    /\ Forget(i)
    /\ UNCHANGED <<wfLen, nodeSel, podCache, pvc, lock, holders, pc, act,
                   step, frame, faults, resolve>>

\* The workers created for an instance after it was deleted are collected.
Collect(i) ==
    /\ i \in deleted
    /\ PodsOf(pods, i) # {}
    /\ pods' = pods \ PodsOf(pods, i)
    /\ ret' = NoResult
    /\ Forget(i)
    /\ UNCHANGED <<wfLen, deleted, nodeSel, conds, podCache, pvc, lock,
                   holders, pc, act, step, frame, faults, resolve>>

\* The reconciler's view of the workers of i is refreshed: the next call of
\* NextAction no longer sees what the last one saw.
CacheSync(i) ==
    /\ podCache[i] # PodsOf(pods, i)
    /\ podCache' = [podCache EXCEPT ![i] = PodsOf(pods, i)]
    /\ ret' = NoResult
    /\ last' = [last EXCEPT ![i] = IF last[i] = NoDecision THEN NoDecision
                                   ELSE [last[i] EXCEPT !.same = FALSE]]
    /\ UNCHANGED <<wfLen, deleted, nodeSel, conds, pods, pvc, lock, holders,
                   pc, act, step, frame, faults, resolve>>

-----------------------------------------------------------------------------
(* The resolver on its own: one call of OverwriteAnsibleWithWorkflow as    *)
(* Reconcile and PrepareAnsibleEnv make it, with every base value,         *)
(* override list and step index.                                           *)

\* The value types the calls name, and the fields each is named for: the
\* privileged flag (Reconcile) and the debug flag as "pbool", the nine text
\* fields of PrepareAnsibleEnv as "string".  Every call names the type its
\* field is declared with; no call names "puint8".
ValueTypes == {"pbool", "string"}

FieldsOf(workflowValueType) ==
    CASE workflowValueType = "pbool" -> {"Debug", "Privileged"}
      [] workflowValueType = "string" ->
            {"WorkloadSSHKeySecretName", "ComputesSSHKeySecretName",
             "ContainerImage", "AnsibleExtraVars", "AnsibleVarFiles",
             "AnsibleInventory", "AnsibleGitRepo", "AnsiblePlaybookPath",
             "AnsibleCollections"}

\* The values of a field in instance.Spec and in a workflow step.
BaseValues(workflowValueType) ==
    CASE workflowValueType = "pbool" -> {Bool(b) : b \in BOOLEAN}
      [] workflowValueType = "string" -> {String(""), String("base")}

OverrideValues(workflowValueType) ==
    CASE workflowValueType = "pbool" ->
            {PBool(NilPtr), PBool(Ptr(TRUE)), PBool(Ptr(FALSE))}
      [] workflowValueType = "string" -> {String(""), String("custom")}

\* The override lists of at most MaxOverrides steps.
OverrideLists(workflowValueType) ==
    UNION {[1..n -> OverrideValues(workflowValueType)] : n \in 0..MaxOverrides}

\* The arguments of a call: a field, the value type it is declared with, its
\* base value and override list, and the step.
ResolverCalls ==
    UNION {[sectionName : FieldsOf(t), workflowValueType : {t},
            base : BaseValues(t), overrides : OverrideLists(t),
            workflowStepNum : 0..(MaxOverrides + 1)] : t \in ValueTypes}

\* instance.Spec with the field of the call and its workflow steps.
ResolverInstance(call) ==
    [f \in {call.sectionName, "Workflow"} |->
        IF f = "Workflow"
        THEN [k \in 1..Len(call.overrides) |->
                [g \in {call.sectionName} |-> call.overrides[k]]]
        ELSE call.base]

NoCall == [state |-> "none"]

\* The call is made and returns its value, or panics.
Resolve ==
    /\ resolve.state = "called"
    /\ \E value \in {OverwriteAnsibleWithWorkflow(
                        ResolverInstance(resolve.call), resolve.call.sectionName,
                        resolve.call.workflowValueType,
                        resolve.call.workflowStepNum)} :
          resolve' = [state |-> IF value = Panic THEN "panicked" ELSE "returned",
                      call |-> resolve.call, value |-> value]
    /\ UNCHANGED <<wfLen, deleted, nodeSel, conds, pods, podCache, pvc, lock,
                   holders, pc, act, step, frame, faults, ret, last>>

ResolverInit ==
    /\ wfLen = [i \in Instances |-> 0]
    /\ deleted = {}
    /\ nodeSel = [i \in Instances |-> InstanceSpec(0).NodeSelector]
    /\ conds = [i \in Instances |-> NilConditions]
    /\ pods = {}
    /\ podCache = [i \in Instances |-> {}]
    /\ pvc = [i \in Instances |-> FALSE]
    /\ lock = NoOwner
    /\ holders = {}
    /\ pc = [i \in Instances |-> "idle"]
    /\ act = [i \in Instances |-> "None"]
    /\ step = [i \in Instances |-> 0]
    /\ frame = [i \in Instances |-> NoFrame]
    /\ faults = 0
    /\ ret = NoResult
    /\ last = [i \in Instances |-> NoDecision]
    /\ \E call \in ResolverCalls : resolve = [state |-> "called", call |-> call]

ResolverSpec == ResolverInit /\ [][Resolve]_vars

-----------------------------------------------------------------------------
Init ==
    /\ wfLen \in [Instances -> 0..MaxSteps]
    /\ wfLen[2] <= MaxCompetitorSteps
    /\ deleted = {}
    /\ nodeSel = [i \in Instances |-> InstanceSpec(wfLen[i]).NodeSelector]
    /\ conds = [i \in Instances |-> NilConditions]
    /\ pods = {}
    /\ podCache = [i \in Instances |-> {}]
    /\ pvc = [i \in Instances |-> FALSE]
    /\ lock = NoOwner
    /\ holders = {}
    /\ pc = [i \in Instances |-> "idle"]
    /\ act = [i \in Instances |-> "None"]
    /\ step = [i \in Instances |-> 0]
    /\ frame = [i \in Instances |-> NoFrame]
    /\ faults = 0
    /\ ret = NoResult
    /\ resolve = NoCall
    /\ last = [i \in Instances |-> NoDecision]

Next ==
    \E i \in Instances :
        \/ Fetch(i)
        \/ Decide(i)
        \/ Release(i)
        \/ Acquire(i)
        \/ Claim(i)
        \/ EnsurePVC(i)
        \/ CheckSecretExists(i)
        \/ GetContainerImage(i)
        \/ Submit(i)
        \/ Unlock(i)
        \/ Patch(i)
        \/ PodSucceed(i)
        \/ PodFail(i)
        \/ CacheSync(i)
        \/ Delete(i)
        \/ Collect(i)

Spec == Init /\ [][Next]_vars

\* The platform keeps invoking Reconcile for every instance, refreshes the
\* reconciler's view, and every running worker ends.
Fairness ==
    \A i \in Instances :
        /\ WF_vars(Reconcile(i))
        /\ WF_vars(CacheSync(i))
        /\ WF_vars(PodSucceed(i) \/ PodFail(i))

\* A zero-step workflow competing with a workflow of up to MaxCompetitorSteps
\* steps.
ZeroStepInit == Init /\ wfLen[1] = 0

\* The steps of a run in which no instance is deleted.
LiveNext ==
    \E i \in Instances :
        \/ Reconcile(i)
        \/ PodSucceed(i)
        \/ PodFail(i)
        \/ CacheSync(i)

FairSpec == ZeroStepInit /\ [][LiveNext]_vars /\ Fairness

\* Every created worker succeeds: the steps of the system without PodFail,
\* under the fair scheduling of Reconcile, of the view refresh and of the
\* workers.
SucceedingNext ==
    \E i \in Instances :
        \/ Reconcile(i)
        \/ PodSucceed(i)
        \/ CacheSync(i)

SucceedingSpec ==
    /\ Init
    /\ [][SucceedingNext]_vars
    /\ \A i \in Instances :
          /\ WF_vars(Reconcile(i))
          /\ WF_vars(CacheSync(i))
          /\ WF_vars(PodSucceed(i))

-----------------------------------------------------------------------------
(* Properties *)

RunningOf(i) == {p \in PodsOf(pods, i) : p.phase = "Running"}

\* C1 Lock exclusivity: at most one instance was granted the lock and has not
\* released it, and it is the owner the lock record names; of two Acquire
\* calls that read the same free lock at most one is granted it.
C1_LockExclusive ==
    /\ Cardinality(holders) <= 1
    /\ holders = IF lock = NoOwner THEN {} ELSE {lock}

\* Two instances called Acquire on the free lock; one was granted it while
\* the call of the other is still under way.
C1_Witness ==
    \E i, j \in Instances :
        /\ i # j
        /\ pc[i] = "claim"
        /\ lock = j
        /\ holders = {j}
        /\ ret.inst = j /\ ret.outcome = "Submitted"

\* C2 Serialized runs: no two different instances have a running worker at
\* the same time.
C2_Serialized ==
    \A i, j \in Instances : i # j => RunningOf(i) = {} \/ RunningOf(j) = {}

\* The step indices of the workers of i, and the worker of step k.
Steps(i) == {p.step : p \in PodsOf(pods, i)}
PodAt(i, k) == {p \in PodsOf(pods, i) : p.step = k}
Status(i, t) == conds[i][t].status

\* Instance i returns from a Reconcile in this step.
Returns(i) == ret'.inst = i
\* The step is a request of the Reconcile of i answered at position p.
At(i, p) == pc[i] = p /\ pc'[i] # p
\* The instances that exist.
Existing == Instances \ deleted
\* The workers that the step creates.
Created == {p \in pods' : \A q \in pods : q.name # p.name}
\* The decision of the Evaluator when it is called for i now.
Decision(i) == NextAction(podCache[i], wfLen[i])[1]
\* The last worker the reconciler of i observes has failed.
ObservedFailed(i) ==
    \E p \in podCache[i] :
        /\ p.phase = "Failed"
        /\ \A q \in podCache[i] : q.step <= p.step

\* Progression of instance i over n steps: the created step indices are a
\* prefix of 0..n-1, a worker exists only when the worker of the step before
\* it is Succeeded, and they are exactly 0..n-1 once the run has completed.
Progression(i, n) ==
    /\ \E k \in 0..n : Steps(i) = 0..(k - 1)
    /\ \A p \in PodsOf(pods, i) :
         p.step > 0 => \E q \in PodAt(i, p.step - 1) : q.phase = "Succeeded"
    /\ Status(i, "DeploymentReady") = "True" =>
         /\ Steps(i) = 0..(n - 1)
         /\ \A p \in PodsOf(pods, i) : p.phase = "Succeeded"

\* C3 as stated: monotonic progression of every instance over the N steps of
\* its workflow.
C3_Original == \A i \in Existing : Progression(i, wfLen[i])

\* The number of steps an instance runs: a workflow of length 0 runs the
\* one implicit step 0.
RunLength(i) == IF wfLen[i] = 0 THEN 1 ELSE wfLen[i]

\* C3 Monotonic progression, amended: over max(N, 1) steps.  The workers of
\* an instance that exists are those of a prefix of the steps, each after
\* the first with the worker before it Succeeded, and all of them once the
\* run is complete; the Evaluator asks for the worker of a later step only
\* when it observes the worker of the step before it Succeeded, and
\* Reconcile creates no other worker than the one the Evaluator asked for.
C3_Progression ==
    /\ [](\A i \in Existing : Progression(i, RunLength(i)))
    /\ [][\A i \in Instances :
            /\ (At(i, "list") /\ act'[i] = "CreateFirstPod") => step'[i] = 0
            /\ (At(i, "list") /\ act'[i] = "CreateNextPod")
               => /\ step'[i] \in 1..(RunLength(i) - 1)
                  /\ \E q \in podCache[i] :
                        q.step = step'[i] - 1 /\ q.phase = "Succeeded"
            /\ \A p \in Created :
                  p.owner = i
                  => /\ pc[i] = "pod"
                     /\ act[i] \in {"CreateFirstPod", "CreateNextPod"}
                     /\ p.step = step[i]]_vars

\* A two-step workflow has run both its steps to completion.
C3_Witness ==
    \E i \in Instances :
        /\ i \in Existing
        /\ wfLen[i] = 2
        /\ Steps(i) = {0, 1}
        /\ Status(i, "DeploymentReady") = "True"

\* C4 Lock release before readiness: DeploymentReady is True only for an
\* instance that does not own the lock; Reconcile marks DeploymentReady True
\* only in the EndTesting case once ReleaseLock released the lock, and the
\* stored DeploymentReady becomes True only at the return of such an
\* invocation; an EndTesting invocation whose release failed requeues and
\* leaves the conditions.
C4_ReleaseBeforeReady ==
    /\ [](\A i \in Instances :
            Status(i, "DeploymentReady") = "True" => lock # i /\ i \notin holders)
    /\ [][\A i \in Instances :
            /\ (Status(i, "DeploymentReady") # "True"
                /\ conds'[i].DeploymentReady.status = "True")
               => /\ Returns(i)
                  /\ ret'.action = "EndTesting" /\ ret'.outcome = "Completed"
                  /\ lock' # i
            /\ (frame[i].mem.DeploymentReady.status # "True"
                /\ frame'[i].mem.DeploymentReady.status = "True")
               => pc[i] \in {"idle", "release"} /\ lock' # i
            /\ At(i, "release")
               => \/ frame'[i].outcome = "Completed" /\ lock' # i
                  \/ /\ frame'[i].outcome = "ReleaseFailed"
                     /\ frame'[i].requeue
                     /\ frame'[i].mem = frame[i].mem /\ lock' = lock
            /\ (Returns(i) /\ ret'.outcome = "ReleaseFailed")
               => ret'.requeue /\ conds' = conds]_vars

\* An EndTesting invocation of the lock's owner released the lock and made
\* DeploymentReady True.
C4_Witness ==
    /\ ret.action = "EndTesting" /\ ret.outcome = "Completed"
    /\ ret.inst \in Instances
    /\ Status(ret.inst, "DeploymentReady") = "True"
    /\ lock # ret.inst

\* C5 Condition consistency: in every stored status Ready is True exactly
\* when ServiceConfigReady and DeploymentReady are True.
C5_ConditionConsistency ==
    \A i \in Instances :
        conds[i] # NilConditions =>
            (Status(i, "Ready") = "True"
             <=> (Status(i, "ServiceConfigReady") = "True"
                  /\ Status(i, "DeploymentReady") = "True"))

\* An instance has become Ready, and another has a sub-condition False.
C5_Witness ==
    \E i, j \in Instances :
        /\ Status(i, "Ready") = "True"
        /\ Status(j, "DeploymentReady") = "False"

\* The call of NextAction for i in this step follows a call for i in the
\* invocation before, with no change of the cluster in between.
Redecides(i) == At(i, "list") /\ last[i] # NoDecision
\* The call of NextAction in this step decides what the last one decided.
SameDecision(i) ==
    act'[i] = last[i].action /\ step'[i] = last[i].step

C7_Original ==
    /\ [](\A i \in Instances : \A p, q \in PodsOf(pods, i) :
            p.phase = "Failed" => q.step <= p.step)
    /\ [][\A i \in Instances :
            (At(i, "list") /\ \E p \in PodsOf(pods, i) : p.phase = "Failed")
            => act'[i] = "Failure"]_vars

\* C7 Step failure is terminal: no worker exists for a step after that of a
\* Failed worker; a Failed worker, once observed, stays observed while its
\* instance exists; and every call of the Evaluator that observes it makes
\* Reconcile return Failure, which creates nothing and leaves the lock.
C7_FailureTerminal ==
    /\ [](\A i \in Instances : \A p, q \in PodsOf(pods, i) :
            p.phase = "Failed" => q.step <= p.step)
    /\ [][\A i \in Instances :
            /\ (ObservedFailed(i) /\ i \notin deleted) => ObservedFailed(i)'
            /\ (At(i, "list") /\ ObservedFailed(i))
               => /\ pc'[i] = "patch"
                  /\ act'[i] = "Failure" /\ frame'[i].outcome = "Failure"
                  /\ pods' = pods /\ lock' = lock
            /\ (Returns(i) /\ ret'.action = "Failure")
               => /\ ret'.outcome = "Failure"
                  /\ pods' = pods /\ lock' = lock]_vars

\* A Reconcile returned Failure for the failed first step of a two-step
\* workflow.
C7_Witness ==
    /\ ret.outcome = "Failure"
    /\ ret.inst \in Instances
    /\ wfLen[ret.inst] = 2
    /\ \E p \in PodAt(ret.inst, 0) : p.phase = "Failed"

\* C8 Step failure is recorded in status: after a Reconcile that returned
\* Failure for a Failed worker, the stored DeploymentReady is False with the
\* Error reason.
C8_FailureRecorded ==
    \A i \in Instances :
        (ret.inst = i /\ ret.outcome = "Failure" /\ ObservedFailed(i))
        => conds[i].DeploymentReady = Cond("False", "Error")

\* C9 Lock contention on the first step: when AcquireLock of a Reconcile of
\* i that decided CreateFirstPod meets the lock of another instance (reading
\* the record, without a failing read, or creating it), Reconcile leaves
\* with "not acquired", a requeue and no error, having created no worker and
\* left the lock and the conditions; and so it returns.
C9_Contention ==
    [][\A i \in Instances :
         /\ (/\ At(i, "acquire") \/ At(i, "claim")
             /\ act[i] = "CreateFirstPod"
             /\ lock \notin {NoOwner, i}
             /\ frame'[i].outcome # "LockError")
            => /\ pc'[i] = "patch"
               /\ frame'[i].outcome = "HeldByOther"
               /\ frame'[i].requeue /\ ~frame'[i].err
               /\ frame'[i].mem = frame[i].mem
               /\ pods' = pods /\ lock' = lock /\ conds' = conds
         /\ (/\ Returns(i)
             /\ ret'.action = "CreateFirstPod"
             /\ ret'.outcome = "HeldByOther")
            => /\ ret'.requeue /\ ~ret'.err
               /\ pods' = pods /\ lock' = lock /\ conds' = conds]_vars

\* An instance asked for its first worker while the other one, whose worker
\* is running, owns the lock.
C9_Witness ==
    /\ ret.outcome = "HeldByOther" /\ ret.action = "CreateFirstPod"
    /\ lock \in Instances \ {ret.inst}
    /\ RunningOf(lock) # {}
    /\ PodsOf(pods, ret.inst) = {}

\* The worker p carries the base parameters of the instance.
BaseParameters(p) ==
    LET base == InstanceSpec(0)
    IN /\ p.image = base.ContainerImage.val
       /\ p.privileged = base.Privileged.val
       /\ p.debug = (IF base.Debug.val THEN "true" ELSE "unset")
       /\ p.extraVars = base.AnsibleExtraVars.val
       /\ p.nodeSelector = base.NodeSelector

\* The worker of the zero-step instance 1 is Succeeded.
ZeroStepSucceeded == \E p \in PodAt(1, 0) : p.phase = "Succeeded"

\* The other instance keeps the lock with a Failed worker.
ZeroStepBlocked == lock = 2 /\ \E p \in PodsOf(pods, 2) : p.phase = "Failed"

\* C10 Zero-step workflow: an instance with N = 0 has at most one worker,
\* of step 0 and with the base parameters; and under fair scheduling, from
\* every state in which the lock is free or the worker is Succeeded, the
\* zero-step instance comes to have its worker (unless the other instance
\* keeps the lock with a Failed worker) and, once the worker is Succeeded,
\* to have released the lock with DeploymentReady True.
C10_ZeroSteps ==
    /\ [](\A i \in Instances :
            wfLen[i] = 0 =>
                /\ Cardinality(PodsOf(pods, i)) <= 1
                /\ \A p \in PodsOf(pods, i) : p.step = 0 /\ BaseParameters(p))
    /\ (wfLen[1] = 0 /\ (lock = NoOwner \/ ZeroStepSucceeded))
          ~> /\ PodAt(1, 0) # {} \/ ZeroStepBlocked
             /\ ZeroStepSucceeded =>
                  Status(1, "DeploymentReady") = "True" /\ lock # 1

\* A zero-step workflow has completed with its one worker.
C10_Witness ==
    \E i \in Instances :
        /\ wfLen[i] = 0
        /\ \E p \in PodAt(i, 0) : p.phase = "Succeeded" /\ BaseParameters(p)
        /\ Status(i, "DeploymentReady") = "True"
        /\ lock # i

\* The type the field of a call is declared with.
DeclaredType(call) ==
    CHOOSE t \in ValueTypes : call.sectionName \in FieldsOf(t)

\* The step of the call is inside the list and its override is set for the
\* type of the field: a non-nil pointer, a non-empty string.
OverrideSet(call) ==
    /\ call.workflowStepNum < Len(call.overrides)
    /\ call.overrides[call.workflowStepNum + 1].val #
         (IF DeclaredType(call) = "string" THEN "" ELSE NilPtr)

\* The value an override holds.
OverrideValue(call) ==
    LET o == call.overrides[call.workflowStepNum + 1]
    IN CASE o.type = "string" -> o
         [] o.type = "*bool" -> Bool(o.val[1])

\* C11 Resolution totality: every call, for every field the reconciler
\* resolves, with the value type the field is declared with, and every step,
\* returns a defined value (it neither panics nor returns nil), and returns
\* the base value when the step index is at or beyond the length of the
\* override list (an empty list included) or the override of the step is
\* unset for its type.
C11_ResolutionTotal ==
    /\ resolve.state # "panicked"
    /\ resolve.state = "returned" =>
          /\ resolve.value # Nil
          /\ ~OverrideSet(resolve.call) => resolve.value = resolve.call.base

\* The debug flag resolved for step 0 of an empty override list gave the
\* base value.
C11_Witness ==
    /\ resolve.state = "returned"
    /\ resolve.call.sectionName = "Debug"
    /\ resolve.call.workflowValueType = "pbool"
    /\ resolve.call.base = Bool(TRUE)
    /\ resolve.call.overrides = <<>>
    /\ resolve.call.workflowStepNum = 0
    /\ resolve.value = Bool(TRUE)

\* C12 Override precedence: for a step inside the override list the
\* effective value of a field, resolved with the type the field is declared
\* with, is the step's override when it is set for its type (non-nil
\* pointer, non-empty string) and the base value otherwise; an override of
\* false beats a base of true and an absent boolean override yields the base.
C12_OverridePrecedence ==
    (/\ resolve.state = "returned"
     /\ resolve.call.workflowValueType = DeclaredType(resolve.call)
     /\ resolve.call.workflowStepNum < Len(resolve.call.overrides))
    => resolve.value = IF OverrideSet(resolve.call)
                       THEN OverrideValue(resolve.call)
                       ELSE resolve.call.base

\* An explicit override of false at step 1 won over the base true.
C12_Witness ==
    /\ resolve.state = "returned"
    /\ resolve.call.sectionName = "Privileged"
    /\ resolve.call.workflowValueType = "pbool"
    /\ resolve.call.base = Bool(TRUE)
    /\ resolve.call.overrides = <<PBool(NilPtr), PBool(Ptr(FALSE))>>
    /\ resolve.call.workflowStepNum = 1
    /\ resolve.value = Bool(FALSE)

\* C13 Re-queue contract: every Reconcile exit that leaves the run
\* non-terminal (first-seen initialisation, Wait, lock not acquired, lock
\* release failed, worker submitted) asks for a requeue after
\* RequeueAfterValue.
C13_RequeueContract ==
    ret.outcome \in {"Init", "Wait", "HeldByOther", "ReleaseFailed",
                     "Submitted", "PodRequested"}
    => ret.requeue

\* The run of instance i is complete: a Succeeded worker for each of its
\* steps, DeploymentReady and Ready True, and the lock not held by i.
RunComplete(i) ==
    /\ \A k \in 0..((IF wfLen[i] = 0 THEN 1 ELSE wfLen[i]) - 1) :
          \E p \in PodAt(i, k) : p.phase = "Succeeded"
    /\ Status(i, "DeploymentReady") = "True"
    /\ Status(i, "Ready") = "True"
    /\ lock # i

\* C14 Run completion liveness: when every worker succeeds, under fair
\* scheduling every instance eventually completes its run.
C14_Completion == \A i \in Instances : <>RunComplete(i)

\* C15 Single side effect per invocation: no request of a Reconcile
\* invocation both changes the lock and creates a worker, and an invocation
\* that acquired the lock creates no worker.
C15_SingleSideEffect ==
    [][/\ ~(lock' # lock /\ Created # {})
       /\ \A i \in Instances :
             (frame[i].acquired /\ At(i, "pod")) => Created = {}]_vars

\* The node selector the Spec of instance i was created with.
BaseNodeSelector(i) == InstanceSpec(wfLen[i]).NodeSelector

\* Step k of instance i has no node selector override.
NoSelectorOverride(i, k) ==
    \/ k >= wfLen[i]
    \/ InstanceSpec(wfLen[i]).Workflow[k + 1].NodeSelector = NilPtr

\* C16 Effective step parameters are never persisted: the stored Spec of an
\* instance keeps its base node selector whatever Reconcile applied in
\* memory, and the worker of a step without an override has the base value,
\* not the value an earlier step was given.
C16_NeverPersisted ==
    \A i \in Instances :
        /\ nodeSel[i] = BaseNodeSelector(i)
        /\ \A p \in PodsOf(pods, i) :
              NoSelectorOverride(i, p.step)
              => p.nodeSelector = BaseNodeSelector(i)

\* Reconcile has just submitted the worker of step 1, which has no
\* override, after the worker of step 0 was given the overridden selector.
C16_Witness ==
    /\ ret.outcome = "Submitted"
    /\ ret.step = 1
    /\ ret.patched
    /\ \E p \in PodAt(ret.inst, 0) : p.nodeSelector # BaseNodeSelector(ret.inst)
    /\ \E p \in PodAt(ret.inst, 1) : p.nodeSelector = BaseNodeSelector(ret.inst)

\* The step is a return of Reconcile from the CreateNextPod case with the
\* lock not acquired because another instance holds it.
LostLockReturn ==
    /\ ret'.action = "CreateNextPod"
    /\ ret'.outcome = "HeldByOther"

\* C17 Lost lock on a later step is an error: a Reconcile whose CreateNextPod
\* finds the lock held by another instance returns a non-nil error, creates
\* no worker and leaves the lock.
C17_LostLockIsError ==
    [][LostLockReturn => ret'.err /\ pods' = pods /\ lock' = lock]_vars

\* C18 Worker submission failure: when CreatePod returned an error, at the
\* return of that Reconcile the lock is not held by the instance and the
\* patched status has DeploymentReady False with the reason Error, also when
\* the release of the lock did not succeed.
C18_SubmissionFailure ==
    (ret.outcome \in {"PodError", "PodErrorLockKept"} /\ ret.patched)
    => /\ lock # ret.inst
       /\ conds[ret.inst].DeploymentReady = Cond("False", "Error")

\* C19 First-seen instance: a Reconcile that fetches an instance without
\* Conditions initialises the three conditions and leaves without calling
\* the Evaluator; it returns from the initialisation with the three
\* conditions Unknown in the patched status; the lock, the workers and the
\* volume claims are left.
C19_FirstSeen ==
    [][\A i \in Instances :
          /\ (At(i, "idle") /\ conds[i] = NilConditions)
             => /\ pc'[i] = "patch"
                /\ act'[i] = "Init"
                /\ frame'[i].mem = InitConditions
                /\ lock' = lock /\ holders' = holders
                /\ pods' = pods /\ pvc' = pvc
          /\ (Returns(i) /\ ret'.action = "Init")
             => /\ ret'.patched =>
                      \A t \in {"Ready"} \cup SubConditions :
                          conds'[i][t].status = "Unknown"
                /\ lock' = lock /\ holders' = holders
                /\ pods' = pods /\ pvc' = pvc]_vars

\* A first-seen instance has just been initialised while another instance
\* holds the lock and has a worker.
C19_Witness ==
    /\ ret.outcome = "Init"
    /\ ret.patched
    /\ conds[ret.inst] = InitConditions
    /\ lock \in Instances \ {ret.inst}
    /\ pods # {}

\* Instance i owns the lock and has a Failed worker.
FailedOwner(i) ==
    /\ lock = i
    /\ \E p \in PodsOf(pods, i) : p.phase = "Failed"

\* C20 Failure keeps the lock: a Reconcile in which the Evaluator returns
\* Failure returns the error and leaves the lock, the workers and the
\* conditions ServiceConfigReady and DeploymentReady; an instance that owns
\* the lock with a Failed worker owns it in every later state in which it
\* exists; and while it does, AcquireLock of every CreateFirstPod Reconcile
\* of another instance ends in a requeue and no worker is created.
C20_FailureKeepsLock ==
    [][\A i \in Instances :
          /\ (At(i, "list") /\ Decision(i) = "Failure")
             => /\ pc'[i] = "patch"
                /\ frame'[i].err /\ frame'[i].mem = frame[i].mem
                /\ lock' = lock /\ pods' = pods
          /\ (Returns(i) /\ ret'.action = "Failure")
             => /\ ret'.err
                /\ lock' = lock /\ pods' = pods
                /\ \A t \in SubConditions : conds'[i][t] = conds[i][t]
          /\ (FailedOwner(i) /\ i \notin deleted') => FailedOwner(i)'
          /\ \A j \in Instances \ {i} :
                (/\ FailedOwner(i)
                 /\ At(j, "acquire") \/ At(j, "claim")
                 /\ act[j] = "CreateFirstPod")
                => /\ pc'[j] = "patch"
                   /\ frame'[j].requeue
                   /\ pods' = pods]_vars

\* An instance has just been refused the lock for its first worker by an
\* owner whose Failed worker the reconciler has observed.
C20_Witness ==
    /\ ret.action = "CreateFirstPod"
    /\ ret.outcome = "HeldByOther"
    /\ ret.requeue
    /\ FailedOwner(lock)
    /\ lock # ret.inst
    /\ ObservedFailed(lock)
    /\ PodsOf(pods, ret.inst) = {}

====
